---- MODULE Spec2Model ----
(***************************************************************************)
(* InlineEditorToolbar (plugins/rich-editor): the floating formatting      *)
(* toolbar of the rich editor.  The component listens to quill's           *)
(* EDITOR_CHANGE events and, on a user selection, positions itself and its *)
(* nub relative to the bounds of the selection.                            *)
(*                                                                         *)
(* Units.  Selection bounds and element sizes are whole pixels.  The code  *)
(* halves element sizes (selfSize / 2, nubSize / 2), so every computed     *)
(* coordinate is a multiple of half a pixel; the model keeps computed      *)
(* coordinates in HALF PIXELS (the value the code computes, times two),    *)
(* which makes the arithmetic exact.                                       *)
(***************************************************************************)
EXTENDS Integers, Sequences, FiniteSets

VARIABLES
    phase,        \* lifecycle of the instance: "constructed", "mounted", "unmounted"
    root,         \* this.quill.root (its offsetWidth)
    toolbar,      \* this.toolbar, the ref of the toolbar element
    nub,          \* this.nub, the ref of the nub element
    state,        \* this.state: isVisible, x, y, nubX, nubY
    doc,          \* the editor's content: the length of each line, newline included
    op,           \* the operation that ran last
    ev,           \* the arguments of the last handleEditorChange call
    boundsRange,  \* the range the last SELECTION_CHANGE handling passed to getBounds
    bounds,       \* the bounds the last SELECTION_CHANGE handling got from getBounds
    outcome       \* the result of the last getCoordinates call

vars == <<phase, root, toolbar, nub, state, doc, op, ev, boundsRange, bounds, outcome>>

----------------------------------------------------------------------------
(* Program constants *)

padding == 12

offset == 6

nearStart == 30

SELECTION_CHANGE == "selection-change"

TEXT_CHANGE == "text-change"

USER == "user"

API == "api"

----------------------------------------------------------------------------
(* Bounds of the model *)

MaxToolbarWidth == 21

MaxToolbarHeight == 25

MaxNubSize == 12

ContainerSlack == 10

LeftStep == 14

MaxLeftSteps == 4

MaxSelWidth == 1

MaxTopDelta == 1

MaxSelHeight == 18

MaxDocLen == 4

----------------------------------------------------------------------------
(* Values *)

Max(a, b) == IF a >= b THEN a ELSE b

Min(a, b) == IF a <= b THEN a ELSE b

\* An element ref: unset until React attaches the element.
Unset == [attached |-> FALSE, offsetWidth |-> 0, offsetHeight |-> 0]

Element(w, h) == [attached |-> TRUE, offsetWidth |-> w, offsetHeight |-> h]

ToolbarWidths == (MaxToolbarWidth - 1)..MaxToolbarWidth

ToolbarHeights == (MaxToolbarHeight - 1)..MaxToolbarHeight

NubSizes == (MaxNubSize - 1)..MaxNubSize

Toolbars == {Element(w, h) : w \in ToolbarWidths, h \in ToolbarHeights}

Nubs == {Element(w, h) : w \in NubSizes, h \in NubSizes}

\* Container widths around the width the widest toolbar needs: too narrow,
\* one pixel short, exactly wide enough, and roomy.
ContainerSizes ==
    LET need == MaxToolbarWidth + 2 * padding
    IN  {need - ContainerSlack, need - 1, need, need + ContainerSlack}

Bounds(l, r, t, b) == [left |-> l, right |-> r, top |-> t, bottom |-> b]

NoBounds == [left |-> 0, right |-> -1, top |-> 0, bottom |-> -1]

Lefts == {LeftStep * k : k \in -1..MaxLeftSteps}

Tops == (nearStart - MaxTopDelta)..(nearStart + MaxTopDelta)

BoundsSet ==
    {Bounds(l, l + w, t, t + h) :
        l \in Lefts, w \in 0..MaxSelWidth, t \in Tops, h \in {0, MaxSelHeight}}

\* The bounds quill reports to the mounted component: a selection at the left
\* edge and one at the right edge, each just above and at the top threshold.
EditorBounds ==
    {Bounds(l, l + MaxSelWidth, t, t + MaxSelHeight) :
        l \in {0, LeftStep * MaxLeftSteps}, t \in {nearStart - 1, nearStart}}

\* The geometry of the mounted component.
MountedToolbars == {Element(MaxToolbarWidth, MaxToolbarHeight)}

MountedNubs == {Element(MaxNubSize, MaxNubSize)}

MountedContainerSizes ==
    {MaxToolbarWidth + 2 * padding - 1, MaxToolbarWidth + 2 * padding + ContainerSlack}

Range(i, l) == [isNull |-> FALSE, index |-> i, length |-> l]

NullRange == [isNull |-> TRUE, index |-> 0, length |-> 0]

RECURSIVE SumTo(_, _)
SumTo(d, k) == IF k = 0 THEN 0 ELSE d[k] + SumTo(d, k - 1)

\* scroll.length(): every line counts its newline.
docLength(d) == SumTo(d, Len(d))

\* Documents: one or more lines, each at least its newline long.
Docs ==
    {d \in UNION {[1..n -> 1..MaxDocLen] : n \in 1..MaxDocLen} : docLength(d) <= MaxDocLen}

\* The ranges quill reports for a document: a selection never takes in the
\* newline that ends the document.
RangesOf(d) ==
    {r \in {Range(i, l) : i \in 0..(docLength(d) - 1), l \in 0..(docLength(d) - 1)} :
        r.index + r.length <= docLength(d) - 1}

\* What an event of another type carries in the place of the range (quill passes
\* a delta there): the handler never reads it.
PayloadsOf(d) == {NullRange, Range(0, docLength(d) - 1)}

Sources == {USER, API}

EventTypes == {SELECTION_CHANGE, TEXT_CHANGE}

Event(type, range, source) == [type |-> type, range |-> range, source |-> source]

NoEvent == Event("none", NullRange, "none")

----------------------------------------------------------------------------
(* The positioning arithmetic *)

\* Math.round(n / 2) for an integer n: halves round towards +Infinity.
MathRoundHalf(n) == (n + 1) \div 2

\* makeXCoordinates without the Math.min(max, ...) of the clamp.
makeXCoordinates_NoUpperClamp(b, containerSize, selfSize, nubSize) ==
    LET halfToolbarSize2 == selfSize
        min2 == halfToolbarSize2 + 2 * padding
        averageOffset == MathRoundHalf(b.left + b.right)
        toolbarPosition2 == Max(min2, 2 * averageOffset) - halfToolbarSize2
        nubPosition2 == 2 * averageOffset - toolbarPosition2 - nubSize
    IN  [toolbarPosition |-> toolbarPosition2, nubPosition |-> nubPosition2]

\* makeXCoordinates with the nub placed from the clamped centre.
makeXCoordinates_NubCentred(b, containerSize, selfSize, nubSize) ==
    LET halfToolbarSize2 == selfSize
        min2 == halfToolbarSize2 + 2 * padding
        max2 == 2 * containerSize - halfToolbarSize2 - 2 * padding
        averageOffset == MathRoundHalf(b.left + b.right)
        clamped2 == Max(min2, Min(max2, 2 * averageOffset))
        toolbarPosition2 == clamped2 - halfToolbarSize2
        nubPosition2 == clamped2 - toolbarPosition2 - nubSize
    IN  [toolbarPosition |-> toolbarPosition2, nubPosition |-> nubPosition2]

\* makeXCoordinates clamping to max last: Math.min(max, Math.max(min, x)).
makeXCoordinates_MaxLast(b, containerSize, selfSize, nubSize) ==
    LET halfToolbarSize2 == selfSize
        min2 == halfToolbarSize2 + 2 * padding
        max2 == 2 * containerSize - halfToolbarSize2 - 2 * padding
        averageOffset == MathRoundHalf(b.left + b.right)
        toolbarPosition2 == Min(max2, Max(min2, 2 * averageOffset)) - halfToolbarSize2
        nubPosition2 == 2 * averageOffset - toolbarPosition2 - nubSize
    IN  [toolbarPosition |-> toolbarPosition2, nubPosition |-> nubPosition2]

\* makeXCoordinates; the result is in half pixels.
makeXCoordinates(b, containerSize, selfSize, nubSize) ==
    LET start == b.left
        end == b.right
        halfToolbarSize2 == selfSize
        min2 == halfToolbarSize2 + 2 * padding
        max2 == 2 * containerSize - halfToolbarSize2 - 2 * padding
        averageOffset == MathRoundHalf(start + end)
        toolbarPosition2 == Max(min2, Min(max2, 2 * averageOffset)) - halfToolbarSize2
        nubPosition2 == 2 * averageOffset - toolbarPosition2 - nubSize
    IN  [toolbarPosition |-> toolbarPosition2, nubPosition |-> nubPosition2]

\* makeYCoordinates flipping at bounds.top <= 30.
makeYCoordinates_FlipsAtThirty(b, toolbarHeight, nubHeight) ==
    IF b.top <= nearStart
    THEN [toolbarPosition |-> 2 * (b.bottom + offset),
          nubPosition |-> 0 - nubHeight]
    ELSE [toolbarPosition |-> 2 * (b.top - toolbarHeight - offset),
          nubPosition |-> 2 * toolbarHeight - nubHeight]

\* makeYCoordinates placing the flipped toolbar from bounds.top.
makeYCoordinates_BelowFromTop(b, toolbarHeight, nubHeight) ==
    IF b.top < nearStart
    THEN [toolbarPosition |-> 2 * (b.top + offset),
          nubPosition |-> 0 - nubHeight]
    ELSE [toolbarPosition |-> 2 * (b.top - toolbarHeight - offset),
          nubPosition |-> 2 * toolbarHeight - nubHeight]

\* makeYCoordinates; the result is in half pixels.
makeYCoordinates(b, toolbarHeight, nubHeight) ==
    LET isNearStart == b.top < nearStart
    IN  IF isNearStart
        THEN [toolbarPosition |-> 2 * (b.bottom + offset),
              nubPosition |-> 0 - nubHeight]
        ELSE [toolbarPosition |-> 2 * (b.top - toolbarHeight - offset),
              nubPosition |-> 2 * toolbarHeight - nubHeight]

Px(v) == [unit |-> "px/2", v |-> v]

NoCoordinates == [threw |-> FALSE, computed |-> FALSE,
                  x |-> 0, y |-> 0, nubX |-> Px(0), nubY |-> 0]

\* Reading offsetWidth of an unset ref throws a TypeError.
TypeError == [threw |-> TRUE, computed |-> FALSE,
              x |-> 0, y |-> 0, nubX |-> Px(0), nubY |-> 0]

\* getCoordinates with the refs and the container as they are at the call.
getCoordinates(b, rt, tb, nb) ==
    IF ~tb.attached \/ ~nb.attached
    THEN TypeError
    ELSE LET x == makeXCoordinates(b, rt, tb.offsetWidth, nb.offsetWidth)
             y == makeYCoordinates(b, tb.offsetHeight, nb.offsetHeight)
         IN  [threw |-> FALSE, computed |-> TRUE,
              x |-> x.toolbarPosition, y |-> y.toolbarPosition,
              nubX |-> Px(x.nubPosition), nubY |-> y.nubPosition]

----------------------------------------------------------------------------
(* The editor's lines, as quill reports them *)

\* quill.getIndex(line): the offset at which line k starts.
getIndex(d, k) == SumTo(d, k - 1)

\* quill.getLines(index, length): the lines the range overlaps.
getLines(d, index, length) ==
    {k \in 1..Len(d) :
        /\ getIndex(d, k) < index + length
        /\ getIndex(d, k) + d[k] > index}

\* The last element of numLines.
lastLineOf(lines) == CHOOSE k \in lines : \A j \in lines : j <= k

----------------------------------------------------------------------------
(* handleEditorChange *)

\* showsToolbar without the test of the source.
showsToolbar_AnySource(range, source) ==
    ~range.isNull /\ range.length > 0

\* The condition under which the handler shows the toolbar.
showsToolbar(range, source) ==
    ~range.isNull /\ range.length > 0 /\ source = USER

\* selectionBoundsRange taking the whole last line, its newline included.
selectionBoundsRange_WithNewline(d, range) ==
    LET numLines == getLines(d, range.index, range.length)
    IN  IF Cardinality(numLines) = 1
        THEN range
        ELSE LET lastLine == lastLineOf(numLines)
                 index == getIndex(d, lastLine)
                 length == Min(d[lastLine], range.index + range.length - index)
             IN  Range(index, length)

\* The range whose bounds position the toolbar.
selectionBoundsRange(d, range) ==
    LET numLines == getLines(d, range.index, range.length)
    IN  IF Cardinality(numLines) = 1
        THEN range
        ELSE LET lastLine == lastLineOf(numLines)
                 index == getIndex(d, lastLine)
                 length == Min(d[lastLine] - 1, range.index + range.length - index)
             IN  Range(index, length)

\* handleEditorChange leaving y as it was when it shows the toolbar.
handleEditorChange_KeepsY(st, type, range, source, coordinates) ==
    IF type # SELECTION_CHANGE
    THEN st
    ELSE IF showsToolbar(range, source)
         THEN IF coordinates.threw
              THEN st
              ELSE [isVisible |-> TRUE,
                    x |-> coordinates.x, y |-> st.y,
                    nubX |-> coordinates.nubX, nubY |-> coordinates.nubY]
         ELSE [st EXCEPT !.isVisible = FALSE]

\* handleEditorChange without the early return for other event types.
handleEditorChange_AnyType(st, type, range, source, coordinates) ==
    IF showsToolbar(range, source) /\ coordinates.computed
    THEN [isVisible |-> TRUE,
          x |-> coordinates.x, y |-> coordinates.y,
          nubX |-> coordinates.nubX, nubY |-> coordinates.nubY]
    ELSE [st EXCEPT !.isVisible = FALSE]

\* this.state after the handler, given the coordinates it computed.
handleEditorChange(st, type, range, source, coordinates) ==
    IF type # SELECTION_CHANGE
    THEN st
    ELSE IF showsToolbar(range, source)
         THEN IF coordinates.threw
              THEN st
              ELSE [isVisible |-> TRUE,
                    x |-> coordinates.x, y |-> coordinates.y,
                    nubX |-> coordinates.nubX, nubY |-> coordinates.nubY]
         ELSE [st EXCEPT !.isVisible = FALSE]

----------------------------------------------------------------------------
(* The component under React and quill *)

InitialState ==
    [isVisible |-> FALSE, x |-> 0, y |-> 0, nubX |-> [unit |-> "%", v |-> 50], nubY |-> 0]

\* The instance after its constructor: no element is attached yet.
Init ==
    /\ phase = "constructed"
    /\ root \in MountedContainerSizes
    /\ toolbar = Unset
    /\ nub = Unset
    /\ state = InitialState
    /\ doc \in Docs
    /\ op = "constructor"
    /\ ev = NoEvent
    /\ boundsRange = NullRange
    /\ bounds = NoBounds
    /\ outcome = NoCoordinates

\* The first commit: render attaches the refs, then componentDidMount
\* registers the handler with quill.
Mount ==
    /\ phase = "constructed"
    /\ phase' = "mounted"
    /\ toolbar' \in MountedToolbars
    /\ nub' \in MountedNubs
    /\ op' = "componentDidMount"
    /\ UNCHANGED <<root, state, doc, ev, boundsRange, bounds, outcome>>

\* componentWillUnmount removes the handler, then React detaches the refs.
Unmount ==
    /\ phase = "mounted"
    /\ phase' = "unmounted"
    /\ toolbar' = Unset
    /\ nub' = Unset
    /\ op' = "componentWillUnmount"
    /\ UNCHANGED <<root, state, doc, ev, boundsRange, bounds, outcome>>

\* One call of the handler; b is what quill.getBounds returns if it is asked.
Handle(type, range, source, b) ==
    LET asked == type = SELECTION_CHANGE /\ showsToolbar(range, source)
        coordinates == IF asked THEN getCoordinates(b, root, toolbar, nub)
                                ELSE NoCoordinates
    IN  /\ state' = handleEditorChange(state, type, range, source, coordinates)
        /\ op' = "handleEditorChange"
        /\ ev' = Event(type, range, source)
        /\ IF type = SELECTION_CHANGE
           THEN /\ boundsRange' = IF asked THEN selectionBoundsRange(doc, range)
                                            ELSE NullRange
                /\ bounds' = IF asked THEN b ELSE NoBounds
                /\ outcome' = coordinates
           ELSE UNCHANGED <<boundsRange, bounds, outcome>>
        /\ UNCHANGED <<phase, root, toolbar, nub, doc>>

\* quill emits EDITOR_CHANGE to the registered handler.
EditorChange ==
    /\ phase = "mounted"
    /\ \E type \in EventTypes, source \in Sources :
          \E range \in IF type = SELECTION_CHANGE THEN RangesOf(doc) \cup {NullRange}
                                                    ELSE PayloadsOf(doc) :
             IF type = SELECTION_CHANGE /\ showsToolbar(range, source)
             THEN \E b \in EditorBounds : Handle(type, range, source, b)
             ELSE Handle(type, range, source, NoBounds)

Next == Mount \/ EditorChange \/ Unmount

Spec == Init /\ [][Next]_vars

----------------------------------------------------------------------------
(* The positioner called on an instance, whatever its refs *)

InitCall ==
    /\ \/ /\ phase = "constructed"
          /\ toolbar = Unset
          /\ nub = Unset
       \/ /\ phase = "mounted"
          /\ toolbar \in Toolbars
          /\ nub \in Nubs
    /\ root \in ContainerSizes
    /\ state = InitialState
    /\ doc = <<1>>
    /\ op = "constructor"
    /\ ev = NoEvent
    /\ boundsRange = NullRange
    /\ bounds = NoBounds
    /\ outcome = NoCoordinates

CallGetCoordinates ==
    /\ \E b \in BoundsSet :
          /\ bounds' = b
          /\ outcome' = getCoordinates(b, root, toolbar, nub)
    /\ op' = "getCoordinates"
    /\ UNCHANGED <<phase, root, toolbar, nub, state, doc, ev, boundsRange>>

NextCall == CallGetCoordinates

SpecCall == InitCall /\ [][NextCall]_vars

----------------------------------------------------------------------------
(* Properties of the positioner, checked under SpecCall *)

\* The last operation was a getCoordinates call that returned coordinates.
Computed == op = "getCoordinates" /\ outcome.computed

\* C1: when the container is at least toolbarWidth + 2*12 wide, the toolbar lies
\* inside the padded container, 12 <= toolbarX and
\* toolbarX + toolbarWidth <= containerWidth - 12, wherever the selection is.
C1_ToolbarInsidePaddedContainer ==
    (Computed /\ root >= toolbar.offsetWidth + 2 * 12)
        => /\ 2 * 12 <= outcome.x
           /\ outcome.x + 2 * toolbar.offsetWidth <= 2 * (root - 12)

\* A selection whose midpoint is right of the container, the toolbar held at
\* the right padding.
C1_Witness ==
    /\ Computed
    /\ root >= toolbar.offsetWidth + 2 * 12
    /\ bounds.left + bounds.right > 2 * root
    /\ outcome.x + 2 * toolbar.offsetWidth = 2 * (root - 12)

\* C2: toolbarX + nubX + nubWidth/2 is the selection's midpoint rounded to a
\* whole pixel (a half rounds up), clamped or not, min > max or not.
C2_NubPointsAtMidpoint ==
    Computed =>
        LET target2 == outcome.x + outcome.nubX.v + nub.offsetWidth
        IN  /\ target2 % 2 = 0
            /\ target2 - 1 <= bounds.left + bounds.right
            /\ bounds.left + bounds.right <= target2

\* A clamped toolbar in a container that is too narrow, an odd left + right.
C2_Witness ==
    /\ Computed
    /\ root < toolbar.offsetWidth + 2 * 12
    /\ (bounds.left + bounds.right) % 2 = 1
    /\ outcome.x + toolbar.offsetWidth # bounds.left + bounds.right + 1

\* C3: the toolbar goes below the selection exactly when bounds.top < 30:
\* then toolbarY = bottom + 6 and nubY = -nubHeight/2, otherwise
\* toolbarY = top - toolbarHeight - 6 and nubY = toolbarHeight - nubHeight/2.
C3_FlipsBelowThirty ==
    Computed =>
        IF bounds.top < 30
        THEN /\ outcome.y = 2 * (bounds.bottom + 6)
             /\ outcome.nubY = 0 - nub.offsetHeight
        ELSE /\ outcome.y = 2 * (bounds.top - toolbar.offsetHeight - 6)
             /\ outcome.nubY = 2 * toolbar.offsetHeight - nub.offsetHeight

\* A selection whose top is exactly 30: the toolbar stays above it.
C3_Witness ==
    /\ Computed
    /\ bounds.top = 30
    /\ bounds.bottom > bounds.top
    /\ outcome.y = 2 * (30 - toolbar.offsetHeight - 6)

\* C5: when the container is narrower than toolbarWidth + 2*12 the clamp
\* resolves to min and toolbarX = 12 for every selection; left=100, right=140,
\* containerWidth=150, toolbarWidth=200 gives 12.
C5_NarrowContainerResolvesToMin ==
    /\ (Computed /\ root < toolbar.offsetWidth + 2 * 12) => outcome.x = 2 * 12
    /\ makeXCoordinates(Bounds(100, 140, 50, 70), 150, 200, 10).toolbarPosition = 2 * 12

\* A narrow container and a selection right of it.
C5_Witness ==
    /\ Computed
    /\ root < toolbar.offsetWidth + 2 * 12
    /\ bounds.left > root
    /\ outcome.x = 2 * 12

\* C7: with the toolbar or nub element not attached, the positioner skips the
\* computation and the component stays hidden; no error is raised.
C7_SkipsWhenUnrendered ==
    (op = "getCoordinates" /\ ~(toolbar.attached /\ nub.attached))
        => /\ ~outcome.threw
           /\ ~outcome.computed
           /\ state = InitialState

\* C10 as claimed: above the selection the toolbar never leaves the container,
\* toolbarY >= 0 for every toolbarHeight, and in both placements it keeps
\* 6 pixels from the selection.
C10_FitsAboveForEveryHeight ==
    (Computed /\ bounds.top <= bounds.bottom) =>
        IF bounds.top >= 30
        THEN /\ outcome.y >= 0
             /\ outcome.y + 2 * toolbar.offsetHeight + 2 * 6 <= 2 * bounds.top
        ELSE outcome.y >= 2 * bounds.bottom + 2 * 6

\* C10 amended: above the selection toolbarY >= 0 exactly when
\* toolbarHeight <= bounds.top - 6 (so for every top >= 30 only when
\* toolbarHeight <= 24), and in both placements the toolbar keeps 6 pixels
\* from the selection.
C10_FitsAboveUpToTwentyFour ==
    (Computed /\ bounds.top <= bounds.bottom) =>
        IF bounds.top >= 30
        THEN /\ (outcome.y >= 0) <=> (toolbar.offsetHeight <= bounds.top - 6)
             /\ toolbar.offsetHeight <= 24 => outcome.y >= 0
             /\ outcome.y + 2 * toolbar.offsetHeight + 2 * 6 <= 2 * bounds.top
        ELSE outcome.y >= 2 * bounds.bottom + 2 * 6

\* The toolbar above a selection whose top is 30, touching the container's top.
C10_Witness ==
    /\ Computed
    /\ bounds.top = 30
    /\ toolbar.offsetHeight <= 24
    /\ bounds.bottom >= bounds.top
    /\ outcome.y >= 0

----------------------------------------------------------------------------
(* Properties of the component, checked under Spec *)

Handled == op = "handleEditorChange"

\* C4: after a SELECTION_CHANGE event the toolbar is visible exactly when the
\* range is non-null, longer than 0 and the source is USER.
C4_VisibleIffUserSelection ==
    (Handled /\ ev.type = SELECTION_CHANGE)
        => (state.isVisible <=>
              (~ev.range.isNull /\ ev.range.length > 0 /\ ev.source = USER))

\* An empty user selection hides a toolbar that was shown before.
C4_Witness ==
    /\ Handled
    /\ ev = Event(SELECTION_CHANGE, Range(0, 0), USER)
    /\ state.nubX.unit = "px/2"
    /\ ~state.isVisible

\* C6: for a selection over several lines getBounds is asked for the range
\* that starts at the last line's start and has length
\* min(lastLine.length() - 1, range.index + range.length - lastLineIndex);
\* it ends neither past the selection nor on the line's newline.  For a
\* selection in one line it is asked for the range itself.
C6_BoundsOfLastLinePortion ==
    (/\ Handled
     /\ ev.type = SELECTION_CHANGE
     /\ ~ev.range.isNull
     /\ ev.range.length > 0
     /\ ev.source = USER) =>
        LET r == ev.range
            selEnd == r.index + r.length
            covered == getLines(doc, r.index, r.length)
        IN  IF Cardinality(covered) = 1
            THEN boundsRange = r
            ELSE \E k \in covered :
                    /\ \A j \in covered : j <= k
                    /\ ~boundsRange.isNull
                    /\ boundsRange.index = getIndex(doc, k)
                    /\ boundsRange.index > r.index
                    /\ \/ boundsRange.length = doc[k] - 1
                       \/ boundsRange.length = selEnd - boundsRange.index
                    /\ boundsRange.length >= 0
                    /\ boundsRange.index + boundsRange.length <= selEnd
                    /\ boundsRange.index + boundsRange.length
                          <= getIndex(doc, k) + doc[k] - 1

\* A selection that ends right after the newline of an inner line: the range
\* asked for stops before that newline.
C6_Witness ==
    /\ Handled
    /\ ev.type = SELECTION_CHANGE
    /\ ev.source = USER
    /\ ev.range.length > 0
    /\ Cardinality(getLines(doc, ev.range.index, ev.range.length)) > 1
    /\ boundsRange.index + boundsRange.length < ev.range.index + ev.range.length

\* C8: while the toolbar is visible, x, y, nubX, nubY are the coordinates
\* computed from the bounds of the most recent SELECTION_CHANGE event.
C8_CoordinatesOfLatestSelection ==
    state.isVisible =>
        /\ bounds \in EditorBounds
        /\ outcome.computed
        /\ state.x = outcome.x
        /\ state.y = outcome.y
        /\ state.nubX = outcome.nubX
        /\ state.nubY = outcome.nubY
        /\ phase = "mounted" => outcome = getCoordinates(bounds, root, toolbar, nub)

\* A visible toolbar placed below a selection near the top.
C8_Witness ==
    /\ Handled
    /\ state.isVisible
    /\ bounds.top < 30
    /\ state.y = 2 * (bounds.bottom + 6)

\* C9: an event of another type than SELECTION_CHANGE leaves this.state as it
\* was; a hiding SELECTION_CHANGE event changes isVisible only.
C9_OtherEventsChangeNothing ==
    [][(op' = "handleEditorChange") =>
          /\ ev'.type # SELECTION_CHANGE => state' = state
          /\ (ev'.type = SELECTION_CHANGE /\ ~showsToolbar(ev'.range, ev'.source))
                => state' = [state EXCEPT !.isVisible = FALSE]]_vars

\* A text change by the user, carrying a non-empty range, with the toolbar visible.
C9_Witness ==
    /\ Handled
    /\ ev.type = TEXT_CHANGE
    /\ ev.source = USER
    /\ ~ev.range.isNull
    /\ ev.range.length > 0
    /\ state.isVisible

====
